---- MODULE Spec2Model ----
(***************************************************************************)
(* Export pipeline of XiaomiNoteExporter (src/xiaomi_to_evernote.py):      *)
(* export_notes = credential probe, paginated listing                      *)
(* (download_notes_recursive), per-folder chunked export                   *)
(* (handle_folder_export, process_single_note, _save_chunk).               *)
(*                                                                         *)
(* The upstream service and the file system are the environment: every    *)
(* answer of the service (status, page content, note payload) and every   *)
(* outcome of a chunk write is chosen with \E in the action that consumes *)
(* it.  Entry ids are the positions of the entries in the listing, so ids *)
(* are pairwise distinct.                                                  *)
(*                                                                         *)
(* Spec          one run of export_notes, with the front end's stop request *)
(* SpecNote      process_single_note for one note: placeholders, resources *)
(* SpecCookies   __init__ with a credential string                         *)
(* SpecTranslate process_html_content, rule by rule                        *)
(* SpecSanitize  sanitize_for_xml for one title                            *)
(* SpecRelist    validate_and_estimate and export_notes on one exporter    *)
(* SpecFront     start_export, stop_export, run_export of xiaomi_export.py *)
(* SpecGui       the same handlers of xiaomi_to_evernote_gui.py            *)
(***************************************************************************)
EXTENDS Integers, Sequences, FiniteSets, TLC

\* ---------------------------------------------------------------- bounds
\* Non-empty listing pages the service serves before the empty one.
MaxPages == 2
\* Notes the service holds in total.
MaxNotes == 3
\* Largest configured chunk_size explored (chunk_size ranges over 1..MaxChunk).
MaxChunk == 2
\* Events the environment injects into a run whose listing holds the long
\* page: failed notes, failed resource fetches, failed chunk writes, failed
\* re-probes, and the stop request of the front end.  Folders of short pages
\* see every pattern of failures.
MaxFaults == 1

\* ------------------------------------------------------ program constants
\* handle_folder_export: "if i > 0 and i % 20 == 0" re-probes the login.
ProbeInterval == 20
\* _sanitize_filename: "if len(filename) > 200: filename = filename[:200]".
MaxNameLen == 200
\* ExportConfig: "max_workers: int = 5".
max_workers == 5

\* --------------------------------------------------------------- helpers
\* download_notes_recursive has not returned (or its value is out of use).
NoResult == [returned |-> FALSE, value |-> <<>>]

RECURSIVE Flatten(_)
Flatten(ss) == IF ss = <<>> THEN <<>> ELSE Head(ss) \o Flatten(Tail(ss))

RECURSIVE SeqSum(_)
SeqSum(s) == IF s = <<>> THEN 0 ELSE Head(s) + SeqSum(Tail(s))

Range(s) == {s[k] : k \in 1..Len(s)}

\* ------------------------------------------------------------ data model
\* Folder display names are sequences of characters.  "/" stands for the
\* characters _sanitize_filename replaces, " " for white space it strips.
UncategorizedName == <<"u">>
PrivateName == <<"p">>
\* Folder ids an entry of the listing may carry; 5 is a bucket only when a
\* response has declared it.
EntryFolderIds == {0, 5}
\* Folder definitions a listing response may carry.
DeclaredFolders ==
    { [id |-> 5, subject |-> <<"w", "/">>], [id |-> 5, subject |-> <<"u">>] }

VARIABLES
    pc,              \* position of export_notes
    err,             \* cause of the exception export_notes raised, or "none"
    chunk_size,      \* config.chunk_size
    folder_list,     \* self.folder_list, in dict (insertion) order
    note_collection, \* download_notes_recursive: the shared note_collection
    sync_tag,        \* download_notes_recursive: sync_tag of the next call (NoCursor: None)
    depth,           \* active frames of download_notes_recursive
    result,          \* value download_notes_recursive returned, or NoResult
    served,          \* the listing source's log: every response it served, and the cursor asked with
    calls,           \* completed calls of download_notes_recursive on this exporter
    fetched,         \* ids of the notes download_note was called for, in order
    probe_answer,    \* status that answered the initial probe (0: not yet)
    net,             \* requests issued so far, by kind
    fidx,            \* handle_folder_export: index of the folder in folder_list
    i,               \* handle_folder_export: loop index in folder['notes']
    successful_notes,
    current_chunk_notes,
    chunk_number,
    total_exported,
    total_failed,
    xml_root,        \* note elements under the root of the open document
    writes,          \* calls of _save_chunk so far, in order
    faults,          \* events injected so far that MaxFaults budgets
    cred_failed,     \* a credential failure was observed after the run began
    progress_report, \* config.progress_report
    progress,        \* the PROGRESS: lines printed so far, in order
    processed_ok,    \* ids process_single_note returned True for, this folder
    since_probe,     \* notes handed to process_single_note since the last probe
    is_exporting,    \* the front end's flag (xiaomi_export.py)
    after_stop,      \* notes begun since stop_export: 0, 1, or 2 for more
    \* process_single_note, lines 538-603, for one note
    has_pil,         \* HAS_PIL: the image library could be imported
    npc,             \* position in process_single_note
    original_content, \* note_entry['content'], as a sequence of tokens
    match_idx,       \* matches of img_pattern handled so far
    in_flight,       \* resource requests issued and not yet answered
    note_resources,  \* the resource elements attached to note_elem
    replacements,    \* the list of (old, new) pairs
    content_text,    \* processed_content as put into content_elem.text
    fetch_log,       \* per match handled: whether its resource was fetched
    fetches,         \* per match handled: what download_resource returned, or Raised
    last_response,   \* the response the latest call of download_resource received
    done_notes,      \* the notes process_single_note has finished before this one
    \* __init__ and set_cookies_from_string
    init_state,      \* "new", "constructed", or the exception __init__ raised
    cookies_str,     \* the cookies_str argument, as characters (<<>>: none)
    session_cookies, \* self.session.cookies, a mapping from key to value
    \* process_html_content for one content
    tpc,             \* position in process_html_content
    markup,          \* its argument, as a sequence of tokens
    rule_idx,        \* rules of the table applied so far
    translated,      \* the content variable of process_html_content
    produced,        \* tags the replacements of the applied rules have written
    \* sanitize_for_xml for one title
    spc,             \* position in sanitize_for_xml
    title,           \* its argument, as characters
    sanitized,       \* the string it returned
    \* the front ends (xiaomi_export.py, xiaomi_to_evernote_gui.py)
    threads,         \* the threads start_export has started, in order
    sys_stdout       \* sys.stdout: 0 the process's own, k the stream of thread k

vars == << pc, err, chunk_size, folder_list, note_collection, sync_tag, depth,
           result, served, calls, fetched, probe_answer, net, fidx, i, successful_notes, current_chunk_notes,
           chunk_number, total_exported, total_failed, xml_root, writes,
           faults, cred_failed, progress_report, progress, processed_ok,
           since_probe, is_exporting, after_stop, has_pil, npc, original_content, match_idx,
           in_flight, note_resources, replacements, content_text, fetch_log,
           fetches, last_response, done_notes, init_state, cookies_str, session_cookies, tpc, markup, rule_idx,
           translated, produced, spc, title, sanitized, threads, sys_stdout >>

sanitizeVars == << spc, title, sanitized >>
guiVars == << threads, sys_stdout >>
cookieVars == << init_state, cookies_str, session_cookies >>
translateVars == << tpc, markup, rule_idx, translated, produced >>
noteVars == << has_pil, npc, original_content, match_idx, in_flight,
               note_resources, replacements, content_text, fetch_log,
               fetches, last_response, done_notes >>
exportVars == << pc, err, chunk_size, folder_list, note_collection, sync_tag,
                 depth, result, served, calls, fetched, probe_answer, net, fidx, i,
                 successful_notes, current_chunk_notes, chunk_number,
                 total_exported, total_failed, xml_root, writes, faults,
                 cred_failed, progress_report, progress, processed_ok,
                 since_probe, is_exporting, after_stop >>

listVars == << note_collection, sync_tag, depth, result, served, calls >>
loopVars == << fidx, i, successful_notes, current_chunk_notes, chunk_number,
               xml_root >>
countVars == << total_exported, total_failed >>
frontVars == << is_exporting, after_stop >>
\* exportVars without the front end's flag.
exporterVars == << pc, err, chunk_size, folder_list, listVars, fetched,
                   probe_answer, net, loopVars, countVars, writes, faults,
                   cred_failed, progress_report, progress, processed_ok,
                   since_probe, after_stop >>

\* sync_tag = None: the default of download_notes_recursive (line 447) and
\* the value data.get('syncTag') gives for a response without the key.
NoCursor == -1

\* __init__: the two well-known buckets, in this order.
InitialFolderList ==
    << [id |-> 0, subject |-> UncategorizedName, notes |-> <<>>],
       [id |-> 2, subject |-> PrivateName, notes |-> <<>>] >>

\* No resource request has been answered yet.
NoResponse == [status |-> 0, ctype |-> <<>>, bytes |-> 0]

\* No note is being looked at in detail.
NoteIdle ==
    /\ has_pil = TRUE
    /\ npc = "idle"
    /\ original_content = <<>>
    /\ match_idx = 0
    /\ in_flight = 0
    /\ note_resources = <<>>
    /\ replacements = <<>>
    /\ content_text = <<>>
    /\ fetch_log = <<>>
    /\ fetches = <<>>
    /\ last_response = NoResponse
    /\ done_notes = <<>>

\* process_html_content is not running.
TranslatorIdle ==
    /\ tpc = "idle"
    /\ markup = <<>>
    /\ rule_idx = 0
    /\ translated = <<>>
    /\ produced = {}

\* sanitize_for_xml is not running, and no front end has started a thread.
SanitizerIdle ==
    /\ spc = "idle"
    /\ title = <<>>
    /\ sanitized = <<>>
    /\ threads = <<>>
    /\ sys_stdout = 0

\* The fields of the exporter as __init__ leaves them.
ExporterFields(chunk) ==
    /\ pc = "probe"
    /\ err = "none"
    /\ chunk_size = chunk
    /\ folder_list = InitialFolderList
    /\ note_collection = <<>>
    /\ sync_tag = NoCursor
    /\ depth = 0
    /\ result = NoResult
    /\ served = <<>>
    /\ calls = 0
    /\ fetched = <<>>
    /\ probe_answer = 0
    /\ net = [probe |-> 0, list |-> 0, note |-> 0, res |-> FALSE]
    /\ fidx = 0
    /\ i = 0
    /\ successful_notes = 0
    /\ current_chunk_notes = 0
    /\ chunk_number = 1
    /\ total_exported = 0
    /\ total_failed = 0
    /\ xml_root = <<>>
    /\ writes = <<>>
    /\ faults = 0
    /\ cred_failed = FALSE
    /\ progress = <<>>
    /\ processed_ok = <<>>
    /\ since_probe = 0
    /\ after_stop = 0

\* The exporter as __init__ leaves it, before export_notes, while the
\* front end's flag says that an export is running.
ExporterConstructed(chunk) ==
    /\ ExporterFields(chunk)
    /\ is_exporting = TRUE

\* ------------------------------------------------------- progress events
\* The folder field of the events export_notes prints for its own stages:
\* "准备中", "完成", "失败".
PreparingLabel == <<"preparing">>
CompleteLabel == <<"complete">>
FailedLabel == <<"failed">>

\* One PROGRESS: line; its percentage is a function of current and total.
ProgressEvent(folder, current, total, successful, failed) ==
    [folder |-> folder, current |-> current, total |-> total,
     successful |-> successful, failed |-> failed]

\* The events of export_notes (lines 825-833, 842-850, 860-868, 877-885,
\* 894-902): total is 100, successful is 0.
StageEvent(label, current, failed) == ProgressEvent(label, current, 100, 0, failed)

\* "if self.config.progress_report: print(f"PROGRESS:...")".
Emit(log, enabled, event) == IF enabled THEN Append(log, event) ELSE log

\* The counter kept for the front end's stop request.
Saturate(n) == IF n > 2 THEN 2 ELSE n

\* ------------------------------------------------- export_notes: the probe
\* Mutant of check_login_status: only server errors count as a failed probe.
check_login_status_lenient(status) == status < 500

\* check_login_status: True only for status 200; 401, any other status and
\* any exception give False.
check_login_status(status) == status = 200

ProbeStatuses == {200, 401, 500}

\* export_notes, lines 817-851: the first progress event, then "if not
\* self.check_login_status(): raise" outside the try block, then the second
\* progress event.  run_export clears is_exporting when export_notes ends.
InitialProbe ==
    /\ pc = "probe"
    /\ \E status \in ProbeStatuses :
        LET started == Emit(progress, progress_report,
                            StageEvent(PreparingLabel, 0, 0))
        IN  /\ net' = [net EXCEPT !.probe = @ + 1]
            /\ probe_answer' = status
            /\ IF check_login_status(status)
                  THEN /\ pc' = "listing"
                       /\ err' = err
                       /\ progress' = Emit(started, progress_report,
                                           StageEvent(PreparingLabel, 10, 0))
                       /\ is_exporting' = is_exporting
                  ELSE /\ pc' = "error"
                       /\ err' = "probe"
                       /\ progress' = started
                       /\ is_exporting' = FALSE
    /\ since_probe' = 0
    /\ UNCHANGED << chunk_size, folder_list, listVars, loopVars, countVars,
                    fetched, writes, faults, cred_failed, progress_report, processed_ok,
                    after_stop, noteVars, cookieVars, translateVars, sanitizeVars, guiVars >>

\* ------------------------------------------- download_notes_recursive
\* "self.folder_list[folder['id']] = {subject, notes: []}": a dict store.  An
\* existing key keeps its place in the order and gets a fresh value; a new
\* key goes to the end.
SetFolder(fl, f) ==
    LET fresh == [id |-> f.id, subject |-> f.subject, notes |-> <<>>]
    IN  IF \E k \in 1..Len(fl) : fl[k].id = f.id
           THEN [k \in 1..Len(fl) |-> IF fl[k].id = f.id THEN fresh ELSE fl[k]]
           ELSE Append(fl, fresh)

\* Lines 471-475: the loop over data['data']['folders'].
RECURSIVE UpdateFolders(_, _)
UpdateFolders(fl, decls) ==
    IF decls = <<>> THEN fl
    ELSE UpdateFolders(SetFolder(fl, Head(decls)), Tail(decls))

\* Mutant of Extend: the collection is replaced by the page instead of
\* extended.
ExtendReplacing(coll, entries) == entries

\* Line 479: note_collection.extend(entries).
Extend(coll, entries) == coll \o entries

\* Mutant of AssignEntry: an entry of an unknown folder is routed to the
\* first (uncategorized) bucket instead of being dropped.
AssignEntryDefaulting(fl, entry) ==
    LET known == \E k \in 1..Len(fl) : fl[k].id = entry.folderId
    IN  [k \in 1..Len(fl) |->
            IF fl[k].id = entry.folderId \/ (~known /\ k = 1)
               THEN [fl[k] EXCEPT !.notes = Append(@, entry.id)]
               ELSE fl[k]]

\* Lines 486-490, for one entry: folder_list.get(folderId), append the id
\* when the bucket exists, otherwise only a warning.
AssignEntry(fl, entry) ==
    [k \in 1..Len(fl) |->
        IF fl[k].id = entry.folderId
           THEN [fl[k] EXCEPT !.notes = Append(@, entry.id)]
           ELSE fl[k]]

\* Lines 485-490: the pass over note_collection.
RECURSIVE AssignNotes(_, _)
AssignNotes(fl, coll) ==
    IF coll = <<>> THEN fl
    ELSE AssignNotes(AssignEntry(fl, Head(coll)), Tail(coll))

\* Mutant of FoldersAfterPage: the entries of the page are assigned to their
\* buckets as soon as the page arrives.
FoldersAfterPageAssigning(fl, decls, entries) ==
    AssignNotes(UpdateFolders(fl, decls), entries)

\* folder_list after a response with a non-empty entry list (lines 471-481,
\* 493-496): only the folder definitions are merged.
FoldersAfterPage(fl, decls, entries) == UpdateFolders(fl, decls)

\* folder_list after the response with the empty entry list (lines 471-492).
FoldersAfterLastPage(fl, decls, coll) == AssignNotes(UpdateFolders(fl, decls), coll)

ListStatuses == {200, 401, 500}

\* The syncTag parameter of the request a call issues (lines 454-456): "if
\* sync_tag:" adds it, so None, 0 and "" (here 0) send none.
RequestCursor(tag) == IF tag # NoCursor /\ tag # 0 THEN tag ELSE NoCursor

\* The syncTag of a response with entries: the id of its last entry, a
\* falsy value, or no syncTag key.
SyncTagChoices(entries) == {entries[Len(entries)].id, 0, NoCursor}

\* The folder definitions of one response: none or one.
DeclChoices == {<<>>} \cup { <<d>> : d \in DeclaredFolders }

\* A first page long enough for the loop of handle_folder_export to reach
\* its re-probe: its first ProbeInterval entries lie in the uncategorized
\* folder, the last one in any folder.
LongPageLen == ProbeInterval + 1

\* The sizes of the non-empty page the service may serve after `collected`
\* entries: what is left of MaxNotes, or the long page as the only one.
PageSizes(collected) ==
    (1..(MaxNotes - collected)) \cup (IF collected = 0 THEN {LongPageLen} ELSE {})

\* The entries of a page of n notes that follows `base` notes already served.
PageChoices(base, n) ==
    { [k \in 1..n |-> [id |-> base + k, folderId |-> f[k]]] :
        f \in IF n = LongPageLen
                 THEN {[k \in 1..n |-> IF k < n THEN 0 ELSE last] :
                          last \in EntryFolderIds}
                 ELSE [1..n -> EntryFolderIds] }

\* One call whose request fails: status 401 (line 465), any other failure
\* (raise_for_status, a transport error, a timeout: lines 467, 498-500).
\* The exception unwinds every frame and reaches export_notes (890-904).
ListFail ==
    /\ pc = "listing"
    /\ \E status \in ListStatuses \ {200} :
          /\ net' = [net EXCEPT !.list = @ + 1]
          /\ pc' = "error"
          /\ err' = IF status = 401 THEN "listing_unauthorized" ELSE "listing"
    /\ note_collection' = <<>>
    /\ sync_tag' = NoCursor
    /\ depth' = 0
    /\ progress' = Emit(progress, progress_report, StageEvent(FailedLabel, 0, 1))
    /\ is_exporting' = FALSE
    /\ UNCHANGED << noteVars, cookieVars, translateVars, sanitizeVars, guiVars, probe_answer, fetched, calls, chunk_size, folder_list, result, served, loopVars,
                    countVars, writes, faults, cred_failed, progress_report,
                    processed_ok, since_probe, after_stop >>

\* One call answered with a non-empty page: merge the folders, collect the
\* entries, recurse with the response's syncTag (line 496).
ListPage ==
    /\ pc = "listing"
    /\ Len(served) < MaxPages
    /\ \E n \in PageSizes(Len(note_collection)) :
       \E entries \in PageChoices(Len(note_collection), n) :
       \E decls \in DeclChoices :
       \E tag \in SyncTagChoices(entries) :
          /\ folder_list' = FoldersAfterPage(folder_list, decls, entries)
          /\ note_collection' = Extend(note_collection, entries)
          /\ served' = Append(served, [entries |-> entries, folders |-> decls,
                                       syncTag |-> tag,
                                       asked |-> RequestCursor(sync_tag)])
          /\ sync_tag' = tag
    /\ net' = [net EXCEPT !.list = @ + 1]
    /\ depth' = depth + 1
    /\ UNCHANGED << noteVars, cookieVars, translateVars, sanitizeVars, guiVars, probe_answer, fetched, calls, pc, err, chunk_size, result, loopVars, countVars, writes,
                    faults, cred_failed, progress_report, progress,
                    processed_ok, since_probe, frontVars >>

\* The call answered with an empty entry list: merge the folders, assign
\* every collected entry, return through every frame; export_notes prints
\* its third progress event and goes on to handle_folder_export.
ListLast ==
    /\ pc = "listing"
    /\ \E decls \in DeclChoices :
          /\ folder_list' = FoldersAfterLastPage(folder_list, decls,
                                                 Extend(note_collection, <<>>))
          /\ served' = Append(served, [entries |-> <<>>, folders |-> decls,
                                       syncTag |-> NoCursor,
                                       asked |-> RequestCursor(sync_tag)])
    /\ calls' = calls + 1
    /\ result' = [returned |-> TRUE, value |-> Extend(note_collection, <<>>)]
    /\ note_collection' = <<>>
    /\ sync_tag' = NoCursor
    /\ depth' = 0
    /\ net' = [net EXCEPT !.list = @ + 1]
    /\ pc' = "folders"
    /\ progress' = Emit(progress, progress_report, StageEvent(PreparingLabel, 30, 0))
    /\ UNCHANGED << noteVars, cookieVars, translateVars, sanitizeVars, guiVars, probe_answer, fetched, err, chunk_size, loopVars, countVars, writes, faults,
                    cred_failed, progress_report, processed_ok, since_probe,
                    frontVars >>

\* ------------------------------------------------- process_single_note
\* What the service and the payload do to one note:
\*   ok            the note is fetched and translated;
\*   ok_res_401    as ok, but a resource fetch of the note is answered 401
\*                 (download_resource raises, lines 375-378; the placeholder
\*                 loop skips the resource, lines 587-589);
\*   fetch_failed  download_note raises for a non-credential reason (a
\*                 non-success status, a transport error, undecodable JSON,
\*                 a payload that is no object: lines 353-367, 506);
\*   unauthorized  download_note is answered 401 (lines 348-351);
\*   bad_field     the payload is an object with a field of an unexpected
\*                 type (a createDate that is a string makes to_time_string
\*                 raise TypeError at line 526), after line 509 has created
\*                 the note element.
NoteOutcomes == {"ok", "ok_res_401", "fetch_failed", "unauthorized", "bad_field"}
OkOutcomes == {"ok", "ok_res_401"}
CredentialOutcomes == {"ok_res_401", "unauthorized"}

\* process_single_note(note_id, xml_root): the children of xml_root afterwards
\* and the value returned.  Every exception is caught (lines 608-610); the
\* element line 509 attached stays where it is.
process_single_note(note_id, root, outcome) ==
    CASE outcome \in OkOutcomes ->
            [root |-> Append(root, [id |-> note_id, complete |-> TRUE]), ok |-> TRUE]
      [] outcome = "bad_field" ->
            [root |-> Append(root, [id |-> note_id, complete |-> FALSE]), ok |-> FALSE]
      [] OTHER ->
            [root |-> root, ok |-> FALSE]

\* --------------------------------------------------------------- file names
IllegalChars == {"<", ">", ":", "\"", "/", "\\", "|", "?", "*"}
WhiteSpace == {" "}

RECURSIVE LStrip(_)
LStrip(s) == IF s # <<>> /\ Head(s) \in WhiteSpace THEN LStrip(Tail(s)) ELSE s

RECURSIVE RStrip(_)
RStrip(s) ==
    IF s # <<>> /\ s[Len(s)] \in WhiteSpace THEN RStrip(SubSeq(s, 1, Len(s) - 1)) ELSE s

\* _sanitize_filename: replace, truncate, strip.
_sanitize_filename(filename) ==
    LET replaced == [k \in 1..Len(filename) |->
                        IF filename[k] \in IllegalChars THEN "_" ELSE filename[k]]
        cut == IF Len(replaced) > MaxNameLen THEN SubSeq(replaced, 1, MaxNameLen)
               ELSE replaced
    IN  RStrip(LStrip(cut))

\* f"{...}_part{chunk_number:02d}.enex" and f"{...}.enex".
PartFileName(folder_name, number) ==
    _sanitize_filename(folder_name) \o <<"_part", number, ".enex">>
PlainFileName(folder_name) == _sanitize_filename(folder_name) \o <<".enex">>

\* Lines 753-757: the name of the last (or only) chunk of a folder.
FinalFileName(folder_name, number, notes_count, chunk) ==
    IF notes_count > chunk THEN PartFileName(folder_name, number)
    ELSE PlainFileName(folder_name)

\* _save_chunk: one write of the open document; the entry records whether
\* xml_tree.write succeeded (it re-raises otherwise, lines 647-649).
SaveRecord(folder_id, filename, root, count, write_ok) ==
    [folder |-> folder_id, name |-> filename, notes |-> root, count |-> count,
     ok |-> write_ok]

\* ------------------------------------------------- handle_folder_export
Folder == folder_list[fidx]
notes_count == Len(Folder.notes)

\* The folder comes from the long page: its failures are budgeted.
Budgeted == notes_count >= ProbeInterval

\* Line 700.
NeedsProbe(idx) == idx > 0 /\ idx % ProbeInterval = 0

\* Mutant of CountNote: a failed note is not counted.
CountNoteDroppingFailures(ok, c) ==
    IF ok THEN [c EXCEPT !.successful_notes = @ + 1,
                         !.current_chunk_notes = @ + 1,
                         !.total_exported = @ + 1]
    ELSE c

\* Lines 706-711: the counters after process_single_note returned `ok`.
CountNote(ok, c) ==
    IF ok THEN [c EXCEPT !.successful_notes = @ + 1,
                         !.current_chunk_notes = @ + 1,
                         !.total_exported = @ + 1]
    ELSE [c EXCEPT !.total_failed = @ + 1]

\* Line 727.
FlushDue(current, chunk, idx, count) == current >= chunk /\ idx < count - 1

Counters == [successful_notes |-> successful_notes,
             current_chunk_notes |-> current_chunk_notes,
             total_exported |-> total_exported,
             total_failed |-> total_failed]

\* The next folder with notes, after position `from` (lines 677-679), or 0.
NextFolderIdx(fl, from) ==
    LET later == {k \in (from + 1)..Len(fl) : fl[k].notes # <<>>}
    IN  IF later = {} THEN 0 ELSE CHOOSE k \in later : \A m \in later : k <= m

\* Lines 677-695: enter the next non-empty folder.
StartFolder ==
    /\ pc = "folders"
    /\ NextFolderIdx(folder_list, fidx) # 0
    /\ fidx' = NextFolderIdx(folder_list, fidx)
    /\ i' = 0
    /\ successful_notes' = 0
    /\ current_chunk_notes' = 0
    /\ chunk_number' = 1
    /\ xml_root' = <<>>
    /\ pc' = "notes"
    /\ result' = NoResult
    /\ served' = <<>>
    /\ processed_ok' = <<>>
    /\ UNCHANGED << noteVars, cookieVars, translateVars, sanitizeVars, guiVars, probe_answer, fetched, calls, err, chunk_size, folder_list, note_collection, sync_tag,
                    depth, net, countVars, writes, faults, cred_failed,
                    progress_report, progress, since_probe, frontVars >>

\* Lines 697-748: one iteration of the loop over folder['notes'].
NoteStep ==
    /\ pc = "notes"
    /\ i < notes_count
    /\ \E probe_status \in ProbeStatuses, outcome \in NoteOutcomes,
          write_ok \in BOOLEAN :
        LET note_id == Folder.notes[i + 1]
            probing == NeedsProbe(i)
            probe_ok == check_login_status(probe_status)
            r == process_single_note(note_id, xml_root, outcome)
            c == CountNote(r.ok, Counters)
            flush == FlushDue(c.current_chunk_notes, chunk_size, i, notes_count)
            saving == flush /\ c.current_chunk_notes > 0
            injected == (IF probing /\ ~probe_ok THEN 1 ELSE 0)
                        + (IF outcome # "ok" THEN 1 ELSE 0)
                        + (IF ~write_ok THEN 1 ELSE 0)
        IN  /\ Budgeted => faults + injected <= MaxFaults
            /\ faults' = IF Budgeted THEN faults + injected ELSE faults
            /\ ~probing => probe_status = 200
            /\ IF probing /\ ~probe_ok
                 THEN \* line 703 raises; line 743 catches
                      /\ outcome = "ok" /\ write_ok
                      /\ net' = [net EXCEPT !.probe = @ + 1]
                      /\ cred_failed' = TRUE
                      /\ total_failed' = total_failed + 1
                      /\ since_probe' = 0
                      /\ UNCHANGED << successful_notes, current_chunk_notes, fetched,
                                      total_exported, chunk_number, xml_root,
                                      writes, progress, processed_ok,
                                      after_stop >>
                 ELSE /\ ~saving => write_ok
                      /\ fetched' = Append(fetched, note_id)
                      /\ since_probe' = IF probing THEN 1 ELSE since_probe + 1
                      /\ processed_ok' = IF r.ok THEN Append(processed_ok, note_id)
                                         ELSE processed_ok
                      /\ after_stop' = IF is_exporting THEN after_stop
                                       ELSE Saturate(after_stop + 1)
                      \* lines 714-724, before the chunk is saved
                      /\ progress' = Emit(progress, progress_report,
                                          ProgressEvent(Folder.subject, i + 1,
                                             notes_count, c.successful_notes,
                                             c.total_failed))
                      /\ net' = [net EXCEPT
                                   !.probe = IF probing THEN @ + 1 ELSE @,
                                   !.note = @ + 1,
                                   !.res = @ \/ outcome = "ok_res_401"]
                      /\ cred_failed' = (cred_failed \/ outcome \in CredentialOutcomes)
                      /\ successful_notes' = c.successful_notes
                      /\ total_exported' = c.total_exported
                      /\ writes' = IF saving
                                     THEN Append(writes,
                                            SaveRecord(Folder.id,
                                              PartFileName(Folder.subject, chunk_number),
                                              r.root, c.current_chunk_notes, write_ok))
                                     ELSE writes
                      /\ IF saving /\ ~write_ok
                           THEN \* _save_chunk raises; line 743 catches
                                /\ total_failed' = c.total_failed + 1
                                /\ current_chunk_notes' = c.current_chunk_notes
                                /\ xml_root' = r.root
                                /\ chunk_number' = chunk_number
                           ELSE /\ total_failed' = c.total_failed
                                /\ current_chunk_notes' =
                                      IF flush THEN 0 ELSE c.current_chunk_notes
                                /\ xml_root' = IF flush THEN <<>> ELSE r.root
                                /\ chunk_number' =
                                      IF flush THEN chunk_number + 1 ELSE chunk_number
    /\ i' = i + 1
    /\ UNCHANGED << noteVars, cookieVars, translateVars, sanitizeVars, guiVars, probe_answer, pc, err, chunk_size, folder_list, listVars, fidx,
                    progress_report, is_exporting >>

\* Lines 750-766: after the loop, save the last (or only) chunk.  A failed
\* write raises out of handle_folder_export into export_notes (890-904).
FinishFolder ==
    /\ pc = "notes"
    /\ i = notes_count
    /\ \E write_ok \in BOOLEAN :
        LET saving == current_chunk_notes > 0
        IN  /\ ~saving => write_ok
            /\ (Budgeted /\ ~write_ok) => faults < MaxFaults
            /\ faults' = IF Budgeted /\ ~write_ok THEN faults + 1 ELSE faults
            /\ writes' = IF saving
                           THEN Append(writes,
                                  SaveRecord(Folder.id,
                                    FinalFileName(Folder.subject, chunk_number,
                                                  notes_count, chunk_size),
                                    xml_root, current_chunk_notes, write_ok))
                           ELSE writes
            /\ pc' = IF write_ok THEN "folders" ELSE "error"
            /\ err' = IF write_ok THEN err ELSE "write"
            /\ progress' = IF write_ok THEN progress
                           ELSE Emit(progress, progress_report,
                                     StageEvent(FailedLabel, 0, 1))
            /\ is_exporting' = (is_exporting /\ write_ok)
    /\ xml_root' = <<>>
    /\ UNCHANGED << noteVars, cookieVars, translateVars, sanitizeVars, guiVars, probe_answer, fetched, chunk_size, folder_list, listVars, net, fidx, i,
                    successful_notes, current_chunk_notes, chunk_number,
                    countVars, cred_failed, progress_report, processed_ok,
                    since_probe, after_stop >>

\* Lines 768-769 and 875-888: no folder with notes is left; export_notes
\* prints its last progress event and returns.
FinishExport ==
    /\ pc = "folders"
    /\ NextFolderIdx(folder_list, fidx) = 0
    /\ pc' = "done"
    /\ result' = NoResult
    /\ served' = <<>>
    /\ progress' = Emit(progress, progress_report, StageEvent(CompleteLabel, 100, 0))
    /\ is_exporting' = FALSE
    /\ UNCHANGED << noteVars, cookieVars, translateVars, sanitizeVars, guiVars, probe_answer, fetched, calls, err, chunk_size, folder_list, note_collection, sync_tag,
                    depth, net, loopVars, countVars, writes, faults,
                    cred_failed, progress_report, processed_ok, since_probe,
                    after_stop >>

\* The front end's stop_export (xiaomi_export.py, lines 239-249), called on
\* the interface thread while run_export is inside export_notes: it returns
\* at once unless is_exporting, and otherwise clears the flag.  The flag is
\* read by start_export and stop_export alone.  A run started by the front
\* end reports its progress (run_export, line 258).
stop_export ==
    /\ is_exporting
    /\ progress_report
    /\ faults < MaxFaults
    /\ faults' = faults + 1
    /\ is_exporting' = FALSE
    /\ UNCHANGED << noteVars, cookieVars, translateVars, sanitizeVars, guiVars, pc, err, chunk_size, folder_list, listVars,
                    probe_answer, fetched, net, loopVars, countVars, writes,
                    cred_failed, progress_report, progress, processed_ok,
                    since_probe, after_stop >>

\* ================================== __init__ and set_cookies_from_string
\* The credential string is a sequence of characters: ";" separates the
\* segments, "=" separates a key from its value, " " is white space, "a" and
\* "b" are the other characters.
CookieChars == {";", "=", " ", "a", "b"}
MaxCookieLen == 4
CookieStrings == UNION { [1..n -> CookieChars] : n \in 0..MaxCookieLen }

Contains(s, c) == \E k \in 1..Len(s) : s[k] = c
FirstIndex(s, c) == CHOOSE k \in 1..Len(s) : s[k] = c /\ \A m \in 1..(k - 1) : s[m] # c

\* str.strip().
Strip(s) == RStrip(LStrip(s))

\* str.split(sep): the pieces between the separators, empty ones included.
RECURSIVE Split(_, _)
Split(s, sep) ==
    IF ~Contains(s, sep) THEN <<s>>
    ELSE <<SubSeq(s, 1, FirstIndex(s, sep) - 1)>>
         \o Split(SubSeq(s, FirstIndex(s, sep) + 1, Len(s)), sep)

\* str.split('=', 1) of a string that contains "=".
SplitOnce(s) ==
    << SubSeq(s, 1, FirstIndex(s, "=") - 1),
       SubSeq(s, FirstIndex(s, "=") + 1, Len(s)) >>

\* Mutant of _validate_cookies: only the empty string is rejected.
_validate_cookies_lenient(str) == str # <<>>

\* _validate_cookies (lines 270-278): TRUE when it returns, FALSE when it
\* raises ValidationError.
_validate_cookies(str) ==
    /\ str # <<>>
    /\ \A k \in 1..Len(Split(str, ";")) :
          LET cookie == Split(str, ";")[k]
          IN  Strip(cookie) # <<>> => Contains(cookie, "=")

\* Lines 257-261: cookies_dict, filled segment by segment; a later segment
\* with the same key replaces the value.
RECURSIVE CookiesDict(_, _)
CookiesDict(dict, segments) ==
    IF segments = <<>> THEN dict
    ELSE LET cookie == Head(segments)
             pair == SplitOnce(Strip(cookie))
         IN  IF Contains(cookie, "=")
               THEN CookiesDict((pair[1] :> pair[2]) @@ dict, Tail(segments))
               ELSE CookiesDict(dict, Tail(segments))

\* The empty mapping.
NoCookies == << >>

\* The credential string of the runs of export_notes: one pair.
GivenCookies == <<"a", "=", "b">>

\* __init__ has returned, with GivenCookies installed.
CookiesGiven ==
    /\ init_state = "constructed"
    /\ cookies_str = GivenCookies
    /\ session_cookies = CookiesDict(NoCookies, Split(GivenCookies, ";"))

\* XiaomiNoteExporter(cookies_str, config) is about to run.
InitCookies ==
    /\ ExporterConstructed(1)
    /\ progress_report = FALSE
    /\ NoteIdle
    /\ TranslatorIdle
    /\ SanitizerIdle
    /\ init_state = "new"
    /\ cookies_str \in CookieStrings
    /\ session_cookies = NoCookies

\* __init__ (lines 219-243): "if cookies_str: self.set_cookies_from_string",
\* which validates first (line 255) and re-raises ValidationError (266-268)
\* before line 263 installs anything.  No request is issued.
Construct ==
    /\ init_state = "new"
    /\ IF cookies_str = <<>>
         THEN /\ init_state' = "constructed"
              /\ session_cookies' = session_cookies
         ELSE IF _validate_cookies(cookies_str)
                THEN /\ init_state' = "constructed"
                     /\ session_cookies' =
                           CookiesDict(NoCookies, Split(cookies_str, ";"))
                            @@ session_cookies
                ELSE /\ init_state' = "ValidationError"
                     /\ session_cookies' = session_cookies
    /\ UNCHANGED << exportVars, noteVars, translateVars, sanitizeVars, guiVars, cookies_str >>

NextCookies == Construct

SpecCookies == InitCookies /\ [][NextCookies]_vars

\* ============================================ one note, in detail
\* process_single_note from line 538 on: the placeholders of the note's
\* content, their resources and the content put into the note element.
\*
\* The content is a sequence of tokens: a character of text ("x", or "\n"),
\* or a whole placeholder, i.e. one match of img_pattern (line 546) named by
\* its matched text.  Two placeholders with the same name have the same
\* match.group(0) and the same file id.  A match replaced at line 593 becomes
\* a media token carrying the mime type and hash of the en-media tag.  A
\* tag token is one tag of the rule table of process_html_content, named by
\* its literal text, with the text its pattern captures inside the tag.
MaxTokens == 3
\* Notes process_single_note is followed through, one after the other.
MaxDetailNotes == 2

Text(c) == [k |-> "text", v |-> c, arg |-> "", mime |-> <<>>, hash |-> <<>>]
Placeholder(t) == [k |-> "ph", v |-> t, arg |-> "", mime |-> <<>>, hash |-> <<>>]
Media(mime, hash) == [k |-> "media", v |-> "", arg |-> "", mime |-> mime, hash |-> hash]
Tag(name, arg) == [k |-> "tag", v |-> name, arg |-> arg, mime |-> <<>>, hash |-> <<>>]

TokenChoices == {Text("x"), Text("\n"), Placeholder("A"), Placeholder("B")}
ContentChoices == UNION { [1..n -> TokenChoices] : n \in 0..MaxTokens }

\* img_pattern.finditer(processed_content): the matches, left to right.
Matches(content) == SelectSeq(content, LAMBDA t : t.k = "ph")

\* What a resource request is answered with.  A content type is given split
\* at "/"; NoHeader stands for a response without Content-Type.
NoHeader == <<"absent">>
Payloads == {1, 2}
ContentTypes == {<<"image", "png">>, <<"text", "html">>, <<"image", "x", "y">>, NoHeader}
FetchResponses ==
    { [status |-> 200, ctype |-> c, bytes |-> b] : c \in ContentTypes, b \in Payloads }
    \cup { [status |-> st, ctype |-> NoHeader, bytes |-> 0] : st \in {401, 500} }

\* md5_digest and base64_encode: functions of the bytes alone.
md5_digest(data) == <<"md5", data>>
base64_encode(data) == <<"b64", data>>

\* Image.open(...).size: payload 1 is an image of 3 by 2 pixels, payload 2
\* is not decodable (Image.open raises, lines 394-395).
Decodable(data) == data = 1
ImageSize(data) == [width |-> 3, height |-> 2]

\* download_resource (lines 369-410): what it returns, or that it raised.
Raised == [raised |-> TRUE, data |-> <<>>, hash |-> <<>>, width |-> 0,
           height |-> 0, mime |-> <<>>]
download_resource(resp, pil) ==
    LET content_type == IF resp.ctype = NoHeader THEN <<"image", "jpeg">>
                        ELSE resp.ctype
        starts_with_image == Len(content_type) >= 2 /\ content_type[1] = "image"
        decoded == pil /\ Decodable(resp.bytes)
    IN  IF resp.status # 200 THEN Raised
        ELSE IF ~starts_with_image THEN Raised
        ELSE [raised |-> FALSE,
              data |-> base64_encode(resp.bytes),
              hash |-> md5_digest(resp.bytes),
              width |-> IF decoded THEN ImageSize(resp.bytes).width ELSE 0,
              height |-> IF decoded THEN ImageSize(resp.bytes).height ELSE 0,
              mime |-> content_type]

\* Lines 560-581: the resource element.  "major_type, sub_type =
\* mime.split('/')" raises unless the mime type has exactly two parts; the
\* element is attached by then, without its file-name.
ResourceElement(rd) ==
    [data |-> rd.data, mime |-> rd.mime, width |-> rd.width, height |-> rd.height,
     file_name |-> IF Len(rd.mime) = 2 THEN <<"minote_", rd.hash, rd.mime[2]>>
                   ELSE <<>>]

\* As AfterMatch, but a resource whose data the note already carries is not
\* attached a second time.
AfterMatchDeduplicating(resources, repl, old, rd) ==
    LET known == \E k \in 1..Len(resources) : resources[k].data = rd.data
        attached == IF known THEN resources
                    ELSE Append(resources, ResourceElement(rd))
    IN  IF rd.raised THEN [resources |-> resources, replacements |-> repl]
        ELSE IF Len(rd.mime) # 2
           THEN [resources |-> attached, replacements |-> repl]
           ELSE [resources |-> attached,
                 replacements |-> Append(repl, <<old, Media(rd.mime, rd.hash)>>)]

\* Lines 552-589 for one match with matched text `old`: the resource list
\* and the replacement list afterwards.
AfterMatch(resources, repl, old, rd) ==
    IF rd.raised THEN [resources |-> resources, replacements |-> repl]
    ELSE IF Len(rd.mime) # 2
       THEN [resources |-> Append(resources, ResourceElement(rd)),
             replacements |-> repl]
       ELSE [resources |-> Append(resources, ResourceElement(rd)),
             replacements |-> Append(repl, <<old, Media(rd.mime, rd.hash)>>)]

\* str.replace(old, new): every occurrence of old.
Replace(content, old, new) ==
    [k \in 1..Len(content) |-> IF content[k] = old THEN new ELSE content[k]]

\* Lines 592-593.
RECURSIVE ApplyReplacements(_, _)
ApplyReplacements(content, repl) ==
    IF repl = <<>> THEN content
    ELSE ApplyReplacements(Replace(content, Head(repl)[1], Head(repl)[2]), Tail(repl))

\* --------------------------------------------- process_html_content
\* One rule of the table: the tag that opens a match, the tag that closes it
\* ("" when the pattern ends inside the opening tag), and the tags its
\* replacement writes in their place ("" for none).  The text captured
\* inside the opening tag (the checked and color values) is written into
\* the new opening tag; the text captured between the tags is kept.
Rule(open, close, new_open, new_close) ==
    [open |-> open, close |-> close, new_open |-> new_open, new_close |-> new_close]

\* Mutant of Rules: the first rule writes delete tags, which the third rule
\* rewrites.
RulesRewrittenLater ==
    << Rule("<text>", "</text>", "<delete>", "</delete>"),
       Rule("<new-format>", "</new-format>", "", ""),
       Rule("<delete>", "</delete>", "<s>", "</s>"),
       Rule("<input type=checkbox checked=", "", "<en-todo checked=", ""),
       Rule("<size>", "</size>", "<font style=font-size:18pt>", "</font>"),
       Rule("<mid-size>", "</mid-size>", "<font style=font-size:16pt>", "</font>"),
       Rule("<h3-size>", "</h3-size>", "<font style=font-size:14pt>", "</font>"),
       Rule("<background color=", "</background>",
            "<span style=background-color:", "</span>") >>

\* Lines 418-428: the table, in its order.
Rules ==
    << Rule("<text>", "</text>", "<div>", "</div>"),
       Rule("<new-format>", "</new-format>", "", ""),
       Rule("<delete>", "</delete>", "<s>", "</s>"),
       Rule("<input type=checkbox checked=", "", "<en-todo checked=", ""),
       Rule("<size>", "</size>", "<font style=font-size:18pt>", "</font>"),
       Rule("<mid-size>", "</mid-size>", "<font style=font-size:16pt>", "</font>"),
       Rule("<h3-size>", "</h3-size>", "<font style=font-size:14pt>", "</font>"),
       Rule("<background color=", "</background>",
            "<span style=background-color:", "</span>") >>

\* The positions of the tags of one name.
TagsAt(content, name) ==
    {p \in 1..Len(content) : content[p].k = "tag" /\ content[p].v = name}

Least(S) == CHOOSE p \in S : \A q \in S : p <= q

\* re.sub(pattern, replacement, content, flags=re.DOTALL) for one rule: the
\* leftmost opening tag is matched with the first closing tag after it (the
\* group is lazy), the match is replaced and the scan goes on behind it; an
\* opening tag with no closing tag behind it matches nothing.
RECURSIVE Sub(_, _)
Sub(content, rule) ==
    IF TagsAt(content, rule.open) = {} THEN content
    ELSE
      LET p == Least(TagsAt(content, rule.open))
          new_open == IF rule.new_open = "" THEN <<>>
                      ELSE <<Tag(rule.new_open, content[p].arg)>>
          new_close == IF rule.new_close = "" THEN <<>>
                       ELSE <<Tag(rule.new_close, "")>>
          closes == {q \in TagsAt(content, rule.close) : q > p}
      IN  IF rule.close = ""
            THEN SubSeq(content, 1, p - 1) \o new_open
                 \o Sub(SubSeq(content, p + 1, Len(content)), rule)
          ELSE IF closes = {} THEN content
          ELSE SubSeq(content, 1, p - 1) \o new_open
               \o SubSeq(content, p + 1, Least(closes) - 1) \o new_close
               \o Sub(SubSeq(content, Least(closes) + 1, Len(content)), rule)

\* Lines 430-431: the loop over the table.
RECURSIVE ApplyRules(_, _)
ApplyRules(content, rules) ==
    IF rules = <<>> THEN content
    ELSE ApplyRules(Sub(content, Head(rules)), Tail(rules))

\* Line 434: content.replace('\n', '\n\n').
RECURSIVE DoubleNewlines(_)
DoubleNewlines(content) ==
    IF content = <<>> THEN <<>>
    ELSE (IF Head(content) = Text("\n") THEN <<Text("\n"), Text("\n")>>
          ELSE <<Head(content)>>) \o DoubleNewlines(Tail(content))

\* process_html_content (lines 412-436).
process_html_content(content) == DoubleNewlines(ApplyRules(content, Rules))

\* process_single_note has fetched and decoded a note and reached line 546.
InitNote ==
    /\ ExporterConstructed(1)
    /\ progress_report = FALSE
    /\ has_pil \in BOOLEAN
    /\ npc = "resources"
    /\ original_content \in ContentChoices
    /\ match_idx = 0
    /\ in_flight = 0
    /\ note_resources = <<>>
    /\ replacements = <<>>
    /\ content_text = <<>>
    /\ fetch_log = <<>>
    /\ fetches = <<>>
    /\ last_response = NoResponse
    /\ done_notes = <<>>
    /\ CookiesGiven
    /\ TranslatorIdle
    /\ SanitizerIdle

\* Line 557 calls download_resource for the next match: the request goes
\* out and the loop waits for the call to return.
IssueFetch ==
    /\ npc = "resources"
    /\ match_idx < Len(Matches(original_content))
    /\ in_flight = 0
    /\ in_flight' = in_flight + 1
    /\ UNCHANGED << exportVars, cookieVars, translateVars, sanitizeVars, guiVars, has_pil, npc,
                    original_content, match_idx, note_resources, replacements,
                    content_text, fetch_log, fetches, last_response, done_notes >>

\* The rest of one iteration of the loop over the matches (lines 551-589):
\* the request is answered and download_resource returns or raises.
ResolveMatch ==
    /\ npc = "resources"
    /\ match_idx < Len(Matches(original_content))
    /\ in_flight = 1
    /\ in_flight' = 0
    /\ \E resp \in FetchResponses :
        LET old == Matches(original_content)[match_idx + 1]
            rd == download_resource(resp, has_pil)
            after == AfterMatch(note_resources, replacements, old, rd)
        IN  /\ note_resources' = after.resources
            /\ replacements' = after.replacements
            /\ fetch_log' = Append(fetch_log, ~rd.raised)
            /\ fetches' = Append(fetches, rd)
            /\ last_response' = resp
    /\ match_idx' = match_idx + 1
    /\ UNCHANGED << exportVars, cookieVars, translateVars, sanitizeVars, guiVars, has_pil, npc,
                    original_content, content_text, done_notes >>

\* Lines 591-606: apply the replacements, translate, set the content.
AssembleContent ==
    /\ npc = "resources"
    /\ match_idx = Len(Matches(original_content))
    /\ in_flight = 0
    /\ content_text' =
          process_html_content(ApplyReplacements(original_content, replacements))
    /\ npc' = "done"
    /\ UNCHANGED << exportVars, cookieVars, translateVars, sanitizeVars, guiVars, has_pil, original_content, match_idx,
                    in_flight, note_resources, replacements, fetch_log,
                    fetches, last_response, done_notes >>

\* The tokens of the notes looked at so far.
TokensSoFar ==
    Len(original_content)
        + SeqSum([k \in 1..Len(done_notes) |-> done_notes[k].tokens])

\* handle_folder_export calls process_single_note for the next note (line
\* 703): a new note element and new local lists (lines 509, 548-549);
\* nothing of the note before is consulted.
BeginNextNote ==
    /\ npc = "done"
    /\ original_content # <<>>
    /\ Len(done_notes) + 1 < MaxDetailNotes
    /\ \E content \in ContentChoices :
          /\ content # <<>>
          /\ TokensSoFar + Len(content) <= MaxTokens
          /\ original_content' = content
    /\ done_notes' = Append(done_notes, [resources |-> note_resources,
                                        tokens |-> Len(original_content)])
    /\ npc' = "resources"
    /\ match_idx' = 0
    /\ note_resources' = <<>>
    /\ replacements' = <<>>
    /\ content_text' = <<>>
    /\ fetch_log' = <<>>
    /\ fetches' = <<>>
    /\ last_response' = NoResponse
    /\ UNCHANGED << exportVars, cookieVars, translateVars, sanitizeVars, guiVars, has_pil, in_flight >>

NextNote == IssueFetch \/ ResolveMatch \/ AssembleContent \/ BeginNextNote

SpecNote == InitNote /\ [][NextNote]_vars

\* ===================================== process_html_content, rule by rule
\* The markup handed to process_html_content: text, the tags the rules look
\* for, and the tags they write (the target form).
MaxMarkup == 3

SourceTokens ==
    { Tag("<text>", ""), Tag("</text>", ""),
      Tag("<new-format>", ""), Tag("</new-format>", ""),
      Tag("<delete>", ""), Tag("</delete>", ""),
      Tag("<input type=checkbox checked=", "true"),
      Tag("<size>", ""), Tag("</size>", ""),
      Tag("<background color=", "red"), Tag("</background>", "") }

TargetTokens ==
    { Tag("<div>", ""), Tag("</div>", ""), Tag("<s>", ""), Tag("</s>", ""),
      Tag("<en-todo checked=", "true"),
      Tag("<font style=font-size:18pt>", ""), Tag("</font>", ""),
      Tag("<span style=background-color:", "red"), Tag("</span>", "") }

PlainTokens == {Text("x"), Text("\n")}

MarkupChoices ==
    UNION { [1..n -> SourceTokens \cup TargetTokens \cup PlainTokens] :
              n \in 1..MaxMarkup }

\* The tags the replacement of a rule writes.
Written(rule) == {rule.new_open, rule.new_close} \ {""}

\* process_html_content has been called with a non-empty content.
InitTranslate ==
    /\ ExporterConstructed(1)
    /\ progress_report = FALSE
    /\ NoteIdle
    /\ SanitizerIdle
    /\ CookiesGiven
    /\ tpc = "rules"
    /\ markup \in MarkupChoices
    /\ rule_idx = 0
    /\ translated = markup
    /\ produced = {}

\* One iteration of the loop of lines 430-431.
ApplyNextRule ==
    /\ tpc = "rules"
    /\ rule_idx < Len(Rules)
    /\ translated' = Sub(translated, Rules[rule_idx + 1])
    /\ produced' = IF translated' # translated
                      THEN produced \cup Written(Rules[rule_idx + 1])
                      ELSE produced
    /\ rule_idx' = rule_idx + 1
    /\ UNCHANGED << exportVars, noteVars, cookieVars, sanitizeVars, guiVars, tpc, markup >>

\* Line 434, and the return.
ReplaceNewlines ==
    /\ tpc = "rules"
    /\ rule_idx = Len(Rules)
    /\ translated' = DoubleNewlines(translated)
    /\ tpc' = "done"
    /\ UNCHANGED << exportVars, noteVars, cookieVars, sanitizeVars, guiVars, markup, rule_idx, produced >>

NextTranslate == ApplyNextRule \/ ReplaceNewlines

SpecTranslate == InitTranslate /\ [][NextTranslate]_vars

\* ======================================================= sanitize_for_xml
\* A title is a sequence of characters: the five characters XML reserves,
\* an ordinary character, and the ";" that ends an entity.
MaxTitle == 3

TitleChars == {"&", "<", ">", "\"", "'", "a", ";"}

TitleStrings == UNION { [1..n -> TitleChars] : n \in 0..MaxTitle }

\* As XmlReplacements, with the "&" entry moved to the end of the dict.
XmlReplacementsAmpersandLast ==
    << [old |-> "<", new |-> <<"&", "l", "t", ";">>],
       [old |-> ">", new |-> <<"&", "g", "t", ";">>],
       [old |-> "\"", new |-> <<"&", "q", "u", "o", "t", ";">>],
       [old |-> "'", new |-> <<"&", "a", "p", "o", "s", ";">>],
       [old |-> "&", new |-> <<"&", "a", "m", "p", ";">>] >>

\* The replacements dict of sanitize_for_xml (lines 320-326), in its
\* insertion order, which is the order the loop of line 328 visits.
XmlReplacements ==
    << [old |-> "&", new |-> <<"&", "a", "m", "p", ";">>],
       [old |-> "<", new |-> <<"&", "l", "t", ";">>],
       [old |-> ">", new |-> <<"&", "g", "t", ";">>],
       [old |-> "\"", new |-> <<"&", "q", "u", "o", "t", ";">>],
       [old |-> "'", new |-> <<"&", "a", "p", "o", "s", ";">>] >>

\* content.replace(old, new) for a one-character old (line 329).
ReplaceChar(content, old, new) ==
    Flatten([k \in 1..Len(content) |->
                IF content[k] = old THEN new ELSE <<content[k]>>])

\* The loop of lines 328-329 from entry k of the table on.
RECURSIVE ReplaceFrom(_, _, _)
ReplaceFrom(content, table, k) ==
    IF k > Len(table)
    THEN content
    ELSE ReplaceFrom(ReplaceChar(content, table[k].old, table[k].new),
                     table, k + 1)

\* sanitize_for_xml (lines 315-331).
sanitize_for_xml(content) ==
    IF content = <<>> THEN <<>> ELSE ReplaceFrom(content, XmlReplacements, 1)

\* process_single_note is about to sanitize a title (line 521).
InitSanitize ==
    /\ ExporterConstructed(1)
    /\ progress_report = FALSE
    /\ NoteIdle
    /\ CookiesGiven
    /\ TranslatorIdle
    /\ spc = "called"
    /\ title \in TitleStrings
    /\ sanitized = <<>>
    /\ threads = <<>>
    /\ sys_stdout = 0

\* The call of line 521 returns.
SanitizeTitle ==
    /\ spc = "called"
    /\ sanitized' = sanitize_for_xml(title)
    /\ spc' = "returned"
    /\ UNCHANGED << exportVars, noteVars, cookieVars, translateVars, guiVars, title >>

NextSanitize == SanitizeTitle

SpecSanitize == InitSanitize /\ [][NextSanitize]_vars

\* ============================= one exporter, several of its public methods
\* validate_and_estimate (lines 784-815) probes and lists exactly as
\* export_notes does (lines 789-796 and 837-842) and then returns; a caller
\* that keeps the exporter may go on with validate_and_estimate again or
\* with export_notes.  The exporter's folder_list is the one __init__ made.
MaxCalls == 2

InitRelist ==
    /\ ExporterConstructed(1)
    /\ progress_report = FALSE
    /\ NoteIdle
    /\ CookiesGiven
    /\ TranslatorIdle
    /\ SanitizerIdle

\* validate_and_estimate has returned (line 812) and the caller calls the
\* next method on the same object.
ValidateReturns ==
    /\ pc = "folders"
    /\ fidx = 0
    /\ calls < MaxCalls
    /\ pc' = "probe"
    /\ result' = NoResult
    /\ served' = <<>>
    /\ UNCHANGED << noteVars, cookieVars, translateVars, sanitizeVars, guiVars, probe_answer, fetched, calls, err, chunk_size, folder_list,
                    note_collection, sync_tag, depth, net, loopVars, countVars,
                    writes, faults, cred_failed, progress_report, progress,
                    processed_ok, since_probe, frontVars >>

NextRelist ==
    \/ InitialProbe
    \/ ListFail
    \/ ListPage
    \/ ListLast
    \/ ValidateReturns

SpecRelist == InitRelist /\ [][NextRelist]_vars

\* ================================= the unified front end (xiaomi_export.py)
\* start_export and stop_export run on the GUI thread, run_export on the
\* thread start_export starts.  A thread is a record: its position, and the
\* stream it found in sys.stdout when it redirected it.  The button states
\* follow is_exporting (every handler sets them together with it).
MaxThreads == 3

Thread(position, original, process, read) ==
    [pc |-> position, original_stdout |-> original, child |-> process,
     lines |-> read]

\* No export has been started: the window as __init__ leaves it.
FrontEndIdle ==
    /\ ExporterFields(1)
    /\ is_exporting = FALSE
    /\ progress_report = TRUE
    /\ NoteIdle
    /\ CookiesGiven
    /\ TranslatorIdle
    /\ SanitizerIdle

\* start_export (lines 204-237) with non-empty cookies: "if
\* self.is_exporting: ... return", else set the flag and start a thread.
start_export ==
    /\ ~is_exporting
    /\ Len(threads) < MaxThreads
    /\ is_exporting' = TRUE
    /\ threads' = Append(threads, Thread("started", 0, "none", 0))
    /\ UNCHANGED << exporterVars, noteVars, cookieVars, translateVars,
                    sanitizeVars, sys_stdout >>

\* run_export up to the call of export_notes (lines 253-308): build the
\* configuration and the exporter, save sys.stdout and redirect it.  A
\* constructor that raises (ValidationError) leads to the finally block of
\* line 330 at once.
RunExportBegin ==
    \E k \in 1..Len(threads), constructed \in BOOLEAN :
        /\ threads[k].pc = "started"
        /\ IF constructed
             THEN /\ threads' = [threads EXCEPT
                                   ![k] = Thread("export_notes", sys_stdout, "none", 0)]
                  /\ sys_stdout' = k
                  /\ UNCHANGED is_exporting
             ELSE /\ threads' = [threads EXCEPT ![k].pc = "ended"]
                  /\ is_exporting' = FALSE
                  /\ UNCHANGED sys_stdout
        /\ UNCHANGED << exporterVars, noteVars, cookieVars, translateVars,
                        sanitizeVars >>

\* export_notes returns or raises (lines 308-329): the inner finally
\* restores the stream the thread had saved, the outer one clears the flag.
RunExportEnd ==
    \E k \in 1..Len(threads) :
        /\ threads[k].pc = "export_notes"
        /\ threads' = [threads EXCEPT ![k].pc = "ended"]
        /\ sys_stdout' = threads[k].original_stdout
        /\ is_exporting' = FALSE
        /\ UNCHANGED << exporterVars, noteVars, cookieVars, translateVars,
                        sanitizeVars >>

NextFront == start_export \/ stop_export \/ RunExportBegin \/ RunExportEnd

SpecFront == FrontEndIdle /\ [][NextFront]_vars

\* ==================== the subprocess front end (xiaomi_to_evernote_gui.py)
\* run_export starts the exporter as a child process and reads its output
\* line by line; the child prints at most MaxLines lines.
MaxLines == 2

\* start_export (lines 231-263).
gui_start_export ==
    /\ ~is_exporting
    /\ Len(threads) < MaxThreads
    /\ is_exporting' = TRUE
    /\ threads' = Append(threads, Thread("started", 0, "none", 0))
    /\ UNCHANGED << exporterVars, noteVars, cookieVars, translateVars,
                    sanitizeVars, sys_stdout >>

\* stop_export (lines 265-277): only the flag is cleared.
gui_stop_export ==
    /\ is_exporting
    /\ is_exporting' = FALSE
    /\ UNCHANGED << exporterVars, noteVars, cookieVars, translateVars,
                    sanitizeVars, guiVars >>

\* subprocess.Popen (lines 293-299).
Popen ==
    \E k \in 1..Len(threads) :
        /\ threads[k].pc = "started"
        /\ threads' = [threads EXCEPT ![k] = Thread("reading", 0, "alive", 0)]
        /\ UNCHANGED << exporterVars, noteVars, cookieVars, translateVars,
                        sanitizeVars, sys_stdout, is_exporting >>

\* One iteration of the loop over the child's lines (lines 303-306): "if
\* not self.is_exporting: process.terminate(); break".
ReadLine ==
    \E k \in 1..Len(threads) :
        /\ threads[k].pc = "reading"
        /\ threads[k].child = "alive"
        /\ threads[k].lines < MaxLines
        /\ threads' = IF is_exporting
                        THEN [threads EXCEPT ![k].lines = @ + 1]
                        ELSE [threads EXCEPT ![k] =
                                 Thread("waiting", 0, "terminated", threads[k].lines)]
        /\ UNCHANGED << exporterVars, noteVars, cookieVars, translateVars,
                        sanitizeVars, sys_stdout, is_exporting >>

\* The child ends by itself; readline returns '' and the loop ends.
ChildExits ==
    \E k \in 1..Len(threads) :
        /\ threads[k].pc = "reading"
        /\ threads[k].child = "alive"
        /\ threads' = [threads EXCEPT ![k] =
                          Thread("waiting", 0, "exited", threads[k].lines)]
        /\ UNCHANGED << exporterVars, noteVars, cookieVars, translateVars,
                        sanitizeVars, sys_stdout, is_exporting >>

\* process.wait() returns, the result is shown, and the finally block
\* clears the flag (lines 352-373).
ReaderEnds ==
    \E k \in 1..Len(threads) :
        /\ threads[k].pc = "waiting"
        /\ threads' = [threads EXCEPT ![k].pc = "ended"]
        /\ is_exporting' = FALSE
        /\ UNCHANGED << exporterVars, noteVars, cookieVars, translateVars,
                        sanitizeVars, sys_stdout >>

NextGui ==
    \/ gui_start_export
    \/ gui_stop_export
    \/ Popen
    \/ ReadLine
    \/ ChildExits
    \/ ReaderEnds

SpecGui == FrontEndIdle /\ [][NextGui]_vars

\* ============================================================ export_notes
Init ==
    /\ \E chunk \in 1..MaxChunk : ExporterConstructed(chunk)
    /\ progress_report \in BOOLEAN
    /\ NoteIdle
    /\ CookiesGiven
    /\ TranslatorIdle
    /\ SanitizerIdle

Next ==
    \/ InitialProbe
    \/ ListFail
    \/ ListPage
    \/ ListLast
    \/ StartFolder
    \/ NoteStep
    \/ FinishFolder
    \/ FinishExport
    \/ stop_export

Spec == Init /\ [][Next]_vars

\* ================================================================ claims
\* The successful writes of one folder, in the order they were made.
OkWritesOf(folder_id) ==
    SelectSeq(writes, LAMBDA w : w.folder = folder_id /\ w.ok)

ElementCounts(ws) == [k \in 1..Len(ws) |-> Len(ws[k].notes)]

Ceil(m, n) == (m + n - 1) \div n

\* handle_folder_export has just finished the folder at fidx.
FolderFinished == pc = "folders" /\ fidx > 0

\* The ids of the note elements of every document written so far.
WrittenIds == UNION { {e.id : e \in Range(w.notes)} : w \in Range(writes) }

\* C1: once a credential failure has been observed after the run began (a
\* failed re-probe, a 401 for a note or for a resource), no further note is
\* fetched, no further chunk is written and the run does not end normally.
C1_CredentialFailureAborts ==
    [][cred_failed =>
          /\ net'.note = net.note
          /\ writes' = writes
          /\ pc' # "done"]_vars

\* C2: when a folder is finished with M successful notes and threshold N:
\* M > N gives ceil(M/N) files, all but the last holding N notes; M <= N
\* gives one file with the unsuffixed name.
C2_ChunkFilesPerFolder ==
    FolderFinished =>
        LET M == successful_notes
            N == chunk_size
            W == OkWritesOf(Folder.id)
        IN  IF M > N
              THEN /\ Len(W) = Ceil(M, N)
                   /\ \A k \in 1..(Len(W) - 1) : Len(W[k].notes) = N
              ELSE /\ Len(W) = 1
                   /\ W[1].name = PlainFileName(Folder.subject)

\* C3: the note elements in the files of a finished folder are as many as
\* its notes counted as succeeded, and no written document holds an element
\* of a note that process_single_note reported as failed.
C3_WrittenNotesAreTheSucceeded ==
    /\ FolderFinished =>
          SeqSum(ElementCounts(OkWritesOf(Folder.id))) = successful_notes
    /\ \A w \in Range(writes) : \A e \in Range(w.notes) : e.complete

\* C4: the open chunk never counts more notes than chunk_size.
C4_ChunkNeverExceedsThreshold == current_chunk_notes <= chunk_size

\* C5: a step that fetches a note which does not succeed, and in which no
\* chunk write fails, adds exactly one to total_failed and nothing to
\* total_exported, and the loop goes on with the next note; a run that ends
\* normally has gone through every note of every non-empty folder.
NoteFailedIn(n, n2, exported, exported2) == n2 = n + 1 /\ exported2 = exported
WriteFailedIn(ws, ws2) == Len(ws2) > Len(ws) /\ ~ws2[Len(ws2)].ok
C5_NoteFailureIsIsolated ==
    /\ [][(/\ NoteFailedIn(net.note, net'.note, total_exported, total_exported')
           /\ ~WriteFailedIn(writes, writes'))
          => /\ total_failed' = total_failed + 1
             /\ pc' = "notes"
             /\ err' = "none"
             /\ fidx' = fidx
             /\ i' = i + 1]_vars
    /\ [](pc = "done" =>
            /\ fidx = 0 \/ (i = notes_count /\ NextFolderIdx(folder_list, fidx) = 0)
            /\ fidx = 0 => \A k \in 1..Len(folder_list) : folder_list[k].notes = <<>>)

\* C5 witness: the first note of the uncategorized folder failed, the second
\* one was exported, and the run ended normally.
C5_Witness ==
    /\ pc = "done"
    /\ total_failed = 1
    /\ total_exported >= 1
    /\ Len(folder_list[1].notes) >= 2
    /\ folder_list[1].notes[1] \notin WrittenIds
    /\ folder_list[1].notes[2] \in WrittenIds

\* C6: an initial probe answered 401 ends the run with an error, with no
\* listing, note or resource request issued, no file written and both
\* counters at zero.
C6_UnauthorizedProbeAborts ==
    probe_answer = 401 =>
        /\ pc = "error"
        /\ err = "probe"
        /\ net.list = 0 /\ net.note = 0 /\ ~net.res
        /\ writes = <<>>
        /\ total_exported = 0 /\ total_failed = 0

C6_Witness == probe_answer = 401 /\ pc = "error" /\ net.probe = 1

\* C7: when process_single_note has set the content of a note, the note
\* carries one resource element per placeholder whose fetch succeeded, and
\* the text of every placeholder whose fetch failed is still in the content:
\* each placeholder text occurs at least as often as it has failed matches.
Count(content, t) == Cardinality({k \in 1..Len(content) : content[k] = t})
FailedMatches(t) ==
    Cardinality({k \in 1..Len(fetch_log) :
                    Matches(original_content)[k] = t /\ ~fetch_log[k]})
C7_FailedPlaceholdersRetained ==
    npc = "done" =>
        /\ Len(note_resources)
              = Cardinality({k \in 1..Len(fetch_log) : fetch_log[k]})
        /\ \A t \in {Placeholder("A"), Placeholder("B")} :
              Count(content_text, t) >= FailedMatches(t)

\* C8: when download_notes_recursive returns after K non-empty pages and
\* the empty one, it returns the K pages' entries concatenated in page
\* order, it has issued K + 1 requests and no frame is left.
PagesOf(log) == [k \in 1..Len(log) |-> log[k].entries]
ListingFailed == pc = "error" /\ err \in {"listing", "listing_unauthorized"}
C9_ListingFailureLeavesNothing ==
    ListingFailed =>
        /\ result = NoResult
        /\ \A k \in 1..Len(folder_list) : folder_list[k].notes = <<>>
        /\ writes = <<>>

\* C9 witness: the request for the second page failed.
C9_Witness == ListingFailed /\ Len(served) = 1 /\ net.list = 2

\* C10: after the listing, every collected entry with a registered folder id
\* is in that bucket and in no other, every other entry is in no bucket, the
\* registry's keys are 0, 2 and the declared ids; no bucket holds a note id
\* while pages are being fetched.
RegistryKeys(fl) == {fl[k].id : k \in 1..Len(fl)}
DeclaredIds(log) == UNION { {d.id : d \in Range(log[k].folders)} : k \in 1..Len(log) }
IdsOfFolder(coll, folder_id) ==
    {coll[k].id : k \in {m \in 1..Len(coll) : coll[m].folderId = folder_id}}
C10_OnePassBucketAssignment ==
    /\ result.returned =>
          /\ RegistryKeys(folder_list) = {0, 2} \cup DeclaredIds(served)
          /\ \A k \in 1..Len(folder_list) :
                /\ Range(folder_list[k].notes) = IdsOfFolder(result.value, folder_list[k].id)
                /\ Len(folder_list[k].notes)
                      = Cardinality(IdsOfFolder(result.value, folder_list[k].id))
          /\ \A j, k \in 1..Len(folder_list) :
                j # k => folder_list[j].id # folder_list[k].id
    /\ pc = "listing" => \A k \in 1..Len(folder_list) : folder_list[k].notes = <<>>

\* C10 witness: the listing returned an entry of a folder no response
\* declared next to an entry of the uncategorized folder.
C10_Witness ==
    /\ result.returned
    /\ 5 \notin RegistryKeys(folder_list)
    /\ \E k \in 1..Len(result.value) : result.value[k].folderId = 0
    /\ \E k \in 1..Len(result.value) : result.value[k].folderId = 5

\* The ids of the note elements of a sequence of written documents, file by
\* file and in document order.
ElementIds(ws) ==
    Flatten([k \in 1..Len(ws) |->
                [j \in 1..Len(ws[k].notes) |-> ws[k].notes[j].id]])

\* C11: when a folder is finished, the note elements of its files, read in
\* part order and in document order, are the ids of the folder's notes that
\* process_single_note reported as succeeded, in retrieval order.
C11_FilesHoldSucceededInOrder ==
    FolderFinished => ElementIds(OkWritesOf(Folder.id)) = processed_ok

\* C12: counted over the whole run, no more than ProbeInterval notes are
\* processed between two credential probes or after the last one.
C12_ProbeEveryInterval == since_probe <= ProbeInterval

\* C13: the resource fetches of a note go through a pool of max_workers
\* workers: never more than max_workers are in flight, none is in flight
\* once the note's content is set, and while a match is waiting and a
\* worker is free its fetch can be issued.
Unissued == Len(Matches(original_content)) - match_idx - in_flight
C13_FetchesUseThePool ==
    /\ in_flight <= max_workers
    /\ npc = "done" => in_flight = 0
    /\ (npc = "resources" /\ Unissued > 0 /\ in_flight < max_workers)
          => ENABLED IssueFetch

\* C14: once stop_export has cleared the flag, at most the note in flight is
\* completed: no second note is begun afterwards.
C14_StopIsHonoured == after_stop <= 1

\* C15: with progress reporting enabled, every iteration of the loop over a
\* folder's notes prints one progress event, whose current is the note's
\* 1-based position and whose total is the folder's note count.
C15_OneEventPerNote ==
    [][(progress_report /\ pc = "notes" /\ i' = i + 1)
          => /\ Len(progress') = Len(progress) + 1
             /\ progress'[Len(progress')].current = i'
             /\ progress'[Len(progress')].total = notes_count]_vars

\* C16: with progress reporting enabled, a run that has ended with an error
\* has printed the "failed" event as its last progress event and has not
\* printed the "complete" event.
C16_ErrorEndsWithFailedEvent ==
    (progress_report /\ pc = "error") =>
        /\ progress # <<>>
        /\ progress[Len(progress)].folder = FailedLabel
        /\ \A k \in 1..Len(progress) : progress[k].folder # CompleteLabel

\* C17: the files of a finished folder carry the _partNN suffix exactly when
\* there is more than one of them, with part indices 1, 2, ..., k; a single
\* file has the unsuffixed name.
C17_SuffixIffSeveralFiles ==
    FolderFinished =>
        LET W == OkWritesOf(Folder.id)
        IN  IF Len(W) > 1
              THEN \A k \in 1..Len(W) : W[k].name = PartFileName(Folder.subject, k)
              ELSE \A k \in 1..Len(W) : W[k].name = PlainFileName(Folder.subject)

\* C18: the end of every non-empty folder writes the chunk that is open at
\* that moment, whatever its count: leaving the loop over the folder's notes
\* adds one call of _save_chunk.
C18_FinalizeAlwaysWrites ==
    [][(pc = "notes" /\ pc' # "notes") => Len(writes') = Len(writes) + 1]_vars

\* C19: a credential string with a non-blank segment that has no "=" makes
\* __init__ raise ValidationError, with no cookie installed in the session
\* and no request issued.
HasMalformedSegment(str) ==
    \E k \in 1..Len(Split(str, ";")) :
        /\ Strip(Split(str, ";")[k]) # <<>>
        /\ ~Contains(Split(str, ";")[k], "=")
NoRequestIssued == net = [probe |-> 0, list |-> 0, note |-> 0, res |-> FALSE]
C19_MalformedCookiesRejected ==
    (init_state # "new" /\ HasMalformedSegment(cookies_str)) =>
        /\ init_state = "ValidationError"
        /\ session_cookies = NoCookies
        /\ NoRequestIssued

\* C19 witness: the string holds a well-formed pair next to the malformed
\* segment, and the pair was not installed.
C19_Witness ==
    /\ init_state = "ValidationError"
    /\ HasMalformedSegment(cookies_str)
    /\ \E k \in 1..Len(Split(cookies_str, ";")) :
          Contains(Split(cookies_str, ";")[k], "=")

\* C20: the rules of process_html_content leave markup made of text and
\* target-form tags unchanged; no rule still to be applied looks for a tag
\* that an applied rule has written, and no rule removes or rewrites such
\* a tag.
TargetFormOnly(content) ==
    \A k \in 1..Len(content) : content[k] \in TargetTokens \cup PlainTokens
TagCount(content, name) == Cardinality(TagsAt(content, name))
C20_TranslationStable ==
    /\ []((tpc = "rules" /\ TargetFormOnly(markup)) => translated = markup)
    /\ [](\A k \in (rule_idx + 1)..Len(Rules) :
            {Rules[k].open, Rules[k].close} \cap produced = {})
    /\ [][\A name \in produced :
            TagCount(translated', name) >= TagCount(translated, name)]_vars

\* C20 witness: every rule has been applied to markup that holds target-form
\* tags only.
C20_Witness ==
    /\ tpc = "rules"
    /\ rule_idx = Len(Rules)
    /\ TargetFormOnly(markup)
    /\ \E k \in 1..Len(markup) : markup[k].k = "tag"
\* The entity of a reserved character; any other character stands for
\* itself.
Entity(c) ==
    CASE c = "&" -> <<"&", "a", "m", "p", ";">>
      [] c = "<" -> <<"&", "l", "t", ";">>
      [] c = ">" -> <<"&", "g", "t", ";">>
      [] c = "\"" -> <<"&", "q", "u", "o", "t", ";">>
      [] c = "'" -> <<"&", "a", "p", "o", "s", ";">>
      [] OTHER -> <<c>>

\* C21: the string sanitize_for_xml returns for a title is the title with
\* each occurrence of the five reserved characters replaced by its entity
\* and every other character kept; the ampersand an entity begins with is
\* not escaped again.
C21_SanitizeEscapesOnce ==
    spc = "returned" =>
        sanitized = Flatten([k \in 1..Len(title) |-> Entity(title[k])])

C21_Witness ==
    /\ spc = "returned"
    /\ title = <<"<", "&", "a">>
    /\ sanitized = <<"&", "l", "t", ";", "&", "a", "m", "p", ";", "a">>

\* The resource elements of every note looked at, the current note last.
ResourcesByNote ==
    Append([k \in 1..Len(done_notes) |-> done_notes[k].resources],
           note_resources)

\* The hash a resource element carries (in its file-name), <<>> if none.
HashOf(element) ==
    IF element.file_name = <<>> THEN <<>> ELSE element.file_name[2]

\* C22: two fetches that return the same bytes yield records with the same
\* hash, whatever else the responses differ in; every fetch that returned
\* has its own resource element in its note, so that resources with equal
\* bytes, in one note or in two, are each attached, with equal hashes.
C22_HashOfBytesNoDeduplication ==
    /\ \A j, k \in 1..Len(fetches) :
          (/\ ~fetches[j].raised
           /\ ~fetches[k].raised
           /\ fetches[j].data = fetches[k].data)
              => fetches[j].hash = fetches[k].hash
    /\ Len(note_resources)
          = Cardinality({k \in 1..Len(fetches) : ~fetches[k].raised})
    /\ \A m, n \in 1..Len(ResourcesByNote) :
       \A j \in 1..Len(ResourcesByNote[m]) :
       \A k \in 1..Len(ResourcesByNote[n]) :
          LET a == ResourcesByNote[m][j]
              b == ResourcesByNote[n][k]
          IN  (a.data = b.data /\ HashOf(a) # <<>> /\ HashOf(b) # <<>>)
                  => HashOf(a) = HashOf(b)

C22_Witness ==
    /\ npc = "done"
    /\ Len(done_notes) = 1
    /\ Len(done_notes[1].resources) = 1
    /\ Len(note_resources) = 2
    /\ note_resources[1].data = note_resources[2].data
    /\ note_resources[1].mime # note_resources[2].mime
    /\ done_notes[1].resources[1].data = note_resources[1].data
    /\ HashOf(done_notes[1].resources[1]) = HashOf(note_resources[2])
    /\ HashOf(note_resources[2]) # <<>>

\* The content type of a response begins with "image/".
BeginsWithImage(ctype) == Len(ctype) >= 2 /\ ctype[1] = "image"

\* C26: download_resource returns a record only for a response with a
\* success status and a content type that begins with image/, and raises
\* for every other response, one without a content type included; a
\* payload that cannot be decoded gives width 0 and height 0 in the record.
C26_RecordOnlyForImageResponses ==
    fetches # <<>> =>
        LET rd == fetches[Len(fetches)]
        IN  /\ ~rd.raised <=>
                (last_response.status = 200 /\ BeginsWithImage(last_response.ctype))
            /\ (~rd.raised /\ ~Decodable(last_response.bytes))
                  => (rd.width = 0 /\ rd.height = 0)

\* C23: the first listing request of a traversal carries no cursor, every
\* later request carries exactly the syncTag the response before it
\* returned, and the traversal returns at the first response whose entry
\* list is empty and at no other.
C23_CursorChain ==
    /\ \A k \in 1..Len(served) :
          served[k].asked = IF k = 1 THEN NoCursor ELSE served[k - 1].syncTag
    /\ result.returned =>
          /\ served # <<>>
          /\ served[Len(served)].entries = <<>>
          /\ \A k \in 1..(Len(served) - 1) : served[k].entries # <<>>

\* C24: a step that processes a note writes a file exactly when, counting
\* that note, the open chunk has reached chunk_size and a further note of
\* the folder remains; the write stores the open document, and after it the
\* counter is zero, the open document is empty and the part index is one
\* higher; without a flush the part index stays.
C24_FlushExactlyWhenDue ==
    [][(pc = "notes" /\ fetched' # fetched) =>
          LET counter == current_chunk_notes
                            + (IF total_exported' > total_exported THEN 1 ELSE 0)
              due == counter >= chunk_size /\ i + 1 < notes_count
          IN  /\ due <=> Len(writes') = Len(writes) + 1
              /\ due => /\ writes'[Len(writes')].count = counter
                        /\ current_chunk_notes' = 0
                        /\ xml_root' = <<>>
                        /\ chunk_number' = chunk_number + 1
              /\ ~due => /\ current_chunk_notes' = counter
                         /\ chunk_number' = chunk_number]_vars

\* The ids of every bucket of the registry, bucket after bucket.
BucketIds == Flatten([k \in 1..Len(folder_list) |-> folder_list[k].notes])

\* C25: when a run has completed, the notes download_note was called for
\* are the ids of the buckets, bucket by bucket in bucket order, each once:
\* no note is skipped and no request is issued a second time.
C25_EveryNoteFetchedOnce == pc = "done" => fetched = BucketIds

\* C27: the frames of download_notes_recursive that are active at a time do
\* not grow with the number of pages.
C27_DepthIndependentOfPages == depth <= 1

\* The iterations the loops of handle_folder_export have made so far: all
\* of the folders before the current one, i of the current one.
IteratedSoFar ==
    IF fidx = 0 THEN 0
    ELSE i + SeqSum([k \in 1..(fidx - 1) |-> Len(folder_list[k].notes)])

\* C28: at every point of a run, total_exported + total_failed is the
\* number of notes iterated so far.
C28_CountersSumToIterated == total_exported + total_failed = IteratedSoFar

\* The names of the files successfully written, and what the output
\* directory holds under a name: the document of the last such write.
FileNames == { writes[k].name : k \in {j \in 1..Len(writes) : writes[j].ok} }

FileContent(name) ==
    LET last == CHOOSE k \in 1..Len(writes) :
                    /\ writes[k].ok /\ writes[k].name = name
                    /\ \A j \in (k + 1)..Len(writes) :
                          ~(writes[j].ok /\ writes[j].name = name)
    IN  writes[last].notes

\* C29: when a run has completed, no file has been written over by a later
\* write, and every note that succeeded is in exactly one of the files of
\* the output directory.
C29_SucceededNotesStayOnDisk ==
    pc = "done" =>
        /\ \A j, k \in 1..Len(writes) :
              (j < k /\ writes[j].ok /\ writes[k].ok)
                  => writes[j].name # writes[k].name
        /\ \A j \in 1..Len(writes) : \A e \in Range(writes[j].notes) :
              e.complete =>
                 Cardinality({n \in FileNames :
                                 \E x \in Range(FileContent(n)) : x.id = e.id}) = 1

\* C30: whenever download_notes_recursive has returned, however many calls
\* the exporter has completed before, no note id occurs twice in the
\* buckets of the registry taken together.
C30_NoDuplicateAcrossCalls ==
    result.returned =>
        \A j, k \in 1..Len(BucketIds) : j # k => BucketIds[j] # BucketIds[k]

\* The references of the content body: its en-media tags, left to right.
References(content) == SelectSeq(content, LAMBDA t : t.k = "media")

\* A resource element with data, mime, width, height and file name.
CompleteResource(element) ==
    element.data # <<>> /\ element.mime # <<>> /\ element.file_name # <<>>

\* C31: when process_single_note has set the content of a note, the en-media
\* tags of the body and the resource elements of the note match one to one:
\* every resource element is complete, every tag names the hash of a
\* resource element of the note, and a hash has as many tags as elements.
C31_ReferencesMatchResources ==
    npc = "done" =>
        LET refs == References(content_text)
            TagsOf(h) == Cardinality({k \in 1..Len(refs) : refs[k].hash = h})
            ElementsOf(h) ==
                Cardinality({k \in 1..Len(note_resources) :
                                HashOf(note_resources[k]) = h})
        IN  /\ \A k \in 1..Len(note_resources) :
                  /\ CompleteResource(note_resources[k])
                  /\ TagsOf(HashOf(note_resources[k]))
                        = ElementsOf(HashOf(note_resources[k]))
            /\ \A k \in 1..Len(refs) : ElementsOf(refs[k].hash) > 0

\* The events handle_folder_export prints for the notes: the others carry
\* one of the stage labels of export_notes.
NoteEvents ==
    SelectSeq(progress,
              LAMBDA e : e.folder \notin {PreparingLabel, CompleteLabel, FailedLabel})

\* C32: in every per-note progress event, successful + failed equals
\* current.
C32_EventCountersMatchPosition ==
    \A k \in 1..Len(NoteEvents) :
        NoteEvents[k].successful + NoteEvents[k].failed = NoteEvents[k].current

\* The threads that have been started and have not ended.
Running == {k \in 1..Len(threads) : threads[k].pc # "ended"}

\* C33: in the unified front end at most one thread is executing
\* export_notes at any time, and is_exporting is true whenever a thread
\* that start_export started is still running.
C33_SingleExportThread ==
    /\ Cardinality({k \in 1..Len(threads) : threads[k].pc = "export_notes"}) <= 1
    /\ Running # {} => is_exporting

\* C34: in the subprocess front end at most one child process is alive at
\* any time, and a reader thread that ends while a thread started later is
\* still running leaves is_exporting as it is.
C34_SingleExportChild ==
    /\ [](Cardinality({k \in 1..Len(threads) : threads[k].child = "alive"}) <= 1)
    /\ [][\A j, k \in 1..Len(threads) :
             (/\ j < k
              /\ threads[j].pc # "ended" /\ threads'[j].pc = "ended"
              /\ threads[k].pc # "ended")
                 => is_exporting' = is_exporting]_vars

====
